---- MODULE Spec2Model ----
(***************************************************************************)
(* CV chunking and retrieval-preparation pipeline                          *)
(* (src/mcp/cv_vision.py, src/mcp/cv_processor.py).                        *)
(*                                                                         *)
(* The specifications of this module share its variables:                  *)
(*   SpecVision      extract_text_from_images and the persisted cache      *)
(*   SpecChunk       CVProcessor.chunk_text, one loop iteration per step   *)
(*   Spec            CVProcessor.process_cv over the pages of a document   *)
(*   SpecImages      extract_images_from_pdf / extract_images_from_docx    *)
(*   SpecVisionFile  extract_text_from_images on the images of a file      *)
(*   SpecBatch       CVProcessor.process_all over a folder                 *)
(*   SpecClean       CVProcessor.clean_text on bounded texts               *)
(*   SpecPdf         CVProcessor.process_cv over PDFs with blank pages     *)
(*   SpecChunkWide   CVProcessor.chunk_text with a wide overlap            *)
(*                                                                         *)
(* Python strings are sequences of one-character strings, Python indices   *)
(* stay 0-based (Slice and RFind do the translation).                     *)
(***************************************************************************)
EXTENDS Integers, Sequences, FiniteSets, TLC

VARIABLES
    \* ---- cv_vision.py ----
    cacheFile,      \* content of VISION_CACHE_FILE: hash -> text
    vpc,            \* "idle", or "loop" inside extract_text_from_images
    use_cache,      \* argument of the running call
    images,         \* the (page_num, img_index, image_bytes) list being processed
    idx,            \* images processed so far by the for loop
    cache,          \* the local dict `cache`
    cache_updated,  \* the local flag
    results,        \* the local list of ImageText
    vision_ret,     \* what the latest call of extract_text_from_images came to
    \* history of the vision runs (not program state)
    runs,           \* calls of extract_text_from_images made
    calls,          \* hash -> vision-model calls made for it, all runs (2: two or more)
    runCalls,       \* hash -> vision-model calls made for it, this run
    runFailed,      \* hashes whose latest vision call of this run failed
    everNoCache,    \* some run had use_cache = False
    ioFailed,       \* some cache read or write failed
    io,             \* outcome of the latest access to the cache file
    outs,           \* hash -> the texts obtained for it ("" when none was emitted)
    \* ---- cv_processor.py: chunk_text ----
    raw,            \* the argument `text`
    chunk_size,     \* self.chunk_size
    overlap,        \* self.overlap
    cpc,            \* "call", "loop" (at the while test) or "done" (returned)
    text,           \* the local `text` after line 219
    start,          \* the local `start`
    chunks,         \* the local list `chunks`, returned at "done"
    \* history of the chunk_text loop (not program state)
    iter,           \* loop iterations made
    trace,          \* per iteration: the window [start, end) and whether it was emitted
    \* ---- cv_processor.py: process_cv ----
    matricula,      \* the argument matricula
    filename,       \* filepath.name
    ext,            \* filepath.suffix.lower()
    doc,            \* the texts in the file: PDF pages, or DOCX paragraphs and cells
    parser_ok,      \* the document library is installed and opens the file
    use_vision,     \* self.use_vision
    vision_out,     \* what process_cv_with_vision comes to for this file
    cvpc,           \* "call", "pages" (in the page loop), "done", "hung"
    pages,          \* the local list of (page_num, page_text)
    pidx,           \* pages processed so far by the for loop
    cv_chunks,      \* the local list `chunks` of CVChunk, returned at "done"
    chunk_id,       \* the local counter
    \* history of process_cv (not program state)
    body_len,       \* chunks in cv_chunks appended by the page loop
    \* ---- cv_vision.py: extract_images_from_pdf / _docx ----
    img_file,       \* the file: suffix, pages of embedded images, whether it opens
    ipc,            \* "call" or "done" (returned)
    img_ret,        \* the list returned
    \* ---- cv_processor.py: process_all ----
    folder_exists,  \* self.cvs_folder.exists()
    folder,         \* the entries of cvs_folder in iterdir() order
    mapping,        \* the argument mapping: file name -> matricula
    bpc,            \* "call", "loop" (at the for), "in_cv" (inside process_cv), "done"
    cv_files,       \* the local list cv_files
    fidx,           \* files handled so far by the for loop
    all_chunks,     \* the local list all_chunks, returned at "done"
    processed,      \* the local counter
    skipped,        \* the local counter
    \* ---- cv_processor.py: clean_text ----
    clean_in,       \* the argument text
    clpc,           \* "call", "once" (returned), "twice" (applied to its own result)
    clean_out,      \* clean_text(clean_in)
    clean_again     \* clean_text(clean_out)

visionVars ==
    << cacheFile, vpc, use_cache, images, idx, cache, cache_updated, results,
       vision_ret, runs, calls, runCalls, runFailed, everNoCache, ioFailed, io, outs >>
chunkVars == << raw, chunk_size, overlap, cpc, text, start, chunks, iter, trace >>
cvVars ==
    << matricula, filename, ext, doc, parser_ok, use_vision, vision_out, cvpc, pages, pidx,
       cv_chunks, chunk_id, body_len >>
imgVars == << img_file, ipc, img_ret >>
batchVars ==
    << folder_exists, folder, mapping, bpc, cv_files, fidx, all_chunks, processed, skipped >>
cleanVars == << clean_in, clpc, clean_out, clean_again >>
vars == << visionVars, chunkVars, cvVars, imgVars, batchVars, cleanVars >>

(***************************************************************************)
(* Bounds of the model                                                     *)
(***************************************************************************)
\* images in one document handed to extract_text_from_images
MaxImgs == 2
\* calls of extract_text_from_images in one behaviour
MaxRuns == 2
\* characters of the text handed to chunk_text
MaxLen == 13
\* largest chunk_size of a CVProcessor
MaxChunk == 4
\* loop iterations of chunk_text followed (a run that ends takes fewer)
MaxIter == 6

(***************************************************************************)
(* Generic helpers                                                         *)
(***************************************************************************)
Min(a, b) == IF a < b THEN a ELSE b
Max(a, b) == IF a > b THEN a ELSE b

\* Optional[str]: None, or a string
None == [some |-> FALSE, val |-> <<>>]
Some(s) == [some |-> TRUE, val |-> s]
\* Python truthiness of an Optional[str]: None and "" are falsy
Truthy(x) == x.some /\ x.val # <<>>

(***************************************************************************)
(* Python string operations on sequences of characters, 0-based indices    *)
(***************************************************************************)
SetMax(S) == CHOOSE x \in S : \A y \in S : y <= x
SetMin(S) == CHOOSE x \in S : \A y \in S : x <= y

\* the characters \s matches and str.strip() removes
IsSpace(c) == c \in {" ", "\n", "\t", "\r", "\f"}

\* a slice index brought into 0..n the way s[lo:hi] and s.rfind(x, lo, hi) do
NormIdx(i, n) == IF i < 0 THEN Max(i + n, 0) ELSE Min(i, n)

\* s[lo:hi]
Slice(s, lo, hi) ==
    LET l == NormIdx(lo, Len(s))
        h == NormIdx(hi, Len(s))
    IN  IF l < h THEN SubSeq(s, l + 1, h) ELSE <<>>

\* the positions of s (0-based) that s[lo:hi] takes
SlicePositions(s, lo, hi) == NormIdx(lo, Len(s)) .. (NormIdx(hi, Len(s)) - 1)

\* s[i:i+len(sub)] == sub, for 0 <= i
MatchesAt(s, sub, i) ==
    /\ i + Len(sub) <= Len(s)
    /\ \A j \in 1..Len(sub) : s[i + j] = sub[j]

\* s.rfind(sub, lo, hi): the highest index of sub inside s[lo:hi], or -1
RFind(s, sub, lo, hi) ==
    LET l == NormIdx(lo, Len(s))
        h == NormIdx(hi, Len(s))
        found == {i \in l..(h - Len(sub)) : MatchesAt(s, sub, i)}
    IN  IF found = {} THEN -1 ELSE SetMax(found)

\* s.strip()
RECURSIVE LStrip(_)
LStrip(s) == IF s # <<>> /\ IsSpace(Head(s)) THEN LStrip(Tail(s)) ELSE s
RECURSIVE RStrip(_)
RStrip(s) == IF s # <<>> /\ IsSpace(s[Len(s)]) THEN RStrip(SubSeq(s, 1, Len(s) - 1)) ELSE s
Strip(s) == RStrip(LStrip(s))

\* re.sub(r'\s+', ' ', s): every maximal run of whitespace becomes one space
CollapseWs(s) ==
    LET marked == [i \in 1..Len(s) |->
                      IF ~IsSpace(s[i]) THEN s[i]
                      ELSE IF i > 1 /\ IsSpace(s[i - 1]) THEN "" ELSE " "]
        Kept(c) == c # ""
    IN  SelectSeq(marked, Kept)

(***************************************************************************)
(* cv_vision.py: the vision client                                         *)
(***************************************************************************)
\* The byte strings of the embedded images of the model: two images large
\* enough for the vision model, and an icon below MIN_IMAGE_SIZE
ImageBytes == {"imgA", "imgB"}
SmallImageBytes == {"icon"}

\* hashlib.md5(image_bytes).hexdigest(): one digest per byte string
get_image_hash(image_bytes) ==
    CASE image_bytes = "imgA" -> "md5A"
      [] image_bytes = "imgB" -> "md5B"
      [] image_bytes = "icon" -> "md5I"

Hashes == {get_image_hash(b) : b \in ImageBytes \cup SmallImageBytes}

(***************************************************************************)
(* cv_vision.py: extract_images_from_pdf and extract_images_from_docx      *)
(***************************************************************************)
\* line 36
MIN_IMAGE_SIZE == 5000
\* line 37
MAX_IMAGES_PER_PDF == 20

\* len(image_bytes) of the byte strings of the model
ByteLen(image_bytes) ==
    CASE image_bytes = "icon" -> 4999
      [] image_bytes = "imgA" -> 5000
      [] image_bytes = "imgB" -> 6000

\* media_file.lower(), of the file name extensions of the model
LowerExt(name) == IF name = ".PNG" THEN ".png" ELSE name

\* line 227 with every media entry taken for an image
IsImageName_any(name) == TRUE

\* line 227: the name ends with an image extension
IsImageName(name) == LowerExt(name) \in {".png", ".jpg", ".jpeg", ".gif", ".bmp"}

\* lines 178 and 223 with no image taken for small
TooSmall_never(image_bytes) == FALSE

\* lines 178 and 223: len(image_bytes) < MIN_IMAGE_SIZE
TooSmall(image_bytes) == ByteLen(image_bytes) < MIN_IMAGE_SIZE

\* lines 183 and 232 with the cap never reached
CapReached_never(imgs) == FALSE

\* lines 183, 191 and 232: len(images) >= MAX_IMAGES_PER_PDF
CapReached(imgs) == Len(imgs) >= MAX_IMAGES_PER_PDF

\* An embedded image or media entry is [bytes, fails, name]: its bytes,
\* whether reading it raises (doc.extract_image, zip_ref.read), and the
\* extension of its file name (used for a DOCX only).
\*
\* lines 171-189 and 218-237: the inner for loop from the entry of index k
\* on, with images = acc; an entry that raises or is filtered is skipped
RECURSIVE ScanItems(_, _, _, _, _)
ScanItems(acc, items, k, page_num, isDocx) ==
    IF k >= Len(items) THEN acc
    ELSE LET it == items[k + 1]
         IN  IF it.fails \/ TooSmall(it.bytes) \/ (isDocx /\ ~IsImageName(it.name))
             THEN ScanItems(acc, items, k + 1, page_num, isDocx)
             ELSE LET acc2 == Append(acc, <<page_num, k, it.bytes>>)
                  IN  IF CapReached(acc2) THEN acc2
                      ELSE ScanItems(acc2, items, k + 1, page_num, isDocx)

\* lines 168-192: the loop over the pages from page p on
RECURSIVE ScanPages(_, _, _)
ScanPages(acc, pgs, p) ==
    IF p > Len(pgs) THEN acc
    ELSE LET acc2 == ScanItems(acc, pgs[p], 0, p, FALSE)
         IN  IF CapReached(acc2) THEN acc2 ELSE ScanPages(acc2, pgs, p + 1)

\* lines 156-199; ok: fitz imports and opens the file
extract_images_from_pdf(pgs, ok) == IF ok THEN ScanPages(<<>>, pgs, 1) ELSE <<>>

\* lines 202-242; ok: docx imports and the file opens as a zip
extract_images_from_docx(media, ok) ==
    IF ok THEN ScanItems(<<>>, media, 0, 0, TRUE) ELSE <<>>

\* the answers the vision model is told to give when it finds no text
SIN_TEXTO == <<"S", "I", "N", "_", "T", "E", "X", "T", "O">>
SIN_TEXT == <<"S", "I", "N", "_", "T", "E", "X", "T">>
NO_TEXT == <<"N", "O", "_", "T", "E", "X", "T">>
NoTextAnswers == {SIN_TEXTO, SIN_TEXT, NO_TEXT, <<>>}

\* texts the vision model reads off an image
TextAWS == <<"A", "W", "S">>
TextPMP == <<"P", "M", "P", " ", "2", "0", "2", "0">>

\* What one call of the vision endpoint can come to:
\*   "no_key"     GOOGLE_API_KEY is empty
\*   "error"      httpx raises (network, HTTP status, JSON decoding)
\*   "malformed"  the JSON has no candidates[0].content.parts[0].text
\*   "ok"         parts[0]["text"] is the body
Bodies ==
    { SIN_TEXTO, <<" ">> \o NO_TEXT \o <<"\n">>, <<" ">>, <<>>,
      TextAWS, <<" ">> \o TextAWS \o <<"\n">>, TextPMP }
Responses ==
    { [kind |-> k, body |-> <<>>] : k \in {"no_key", "error", "malformed"} }
      \cup { [kind |-> "ok", body |-> b] : b \in Bodies }

\* a response that is a failure of the call, not an answer of the model
IsFailure(resp) == resp.kind # "ok"

\* lines 144-147 with the answer compared before it is trimmed
call_gemini_vision_untrimmed(resp) ==
    IF resp.kind # "ok" THEN None
    ELSE IF Strip(resp.body) # <<>> /\ resp.body \notin NoTextAnswers
         THEN Some(Strip(resp.body)) ELSE None

\* _call_gemini_vision(image_bytes) -> Optional[str], given the endpoint's response
call_gemini_vision(resp) ==
    IF resp.kind = "no_key" THEN None
    ELSE IF resp.kind = "error" THEN None
    ELSE IF resp.kind = "malformed" THEN None
    ELSE LET txt == Strip(resp.body)
         IN  IF txt # <<>> /\ txt \notin NoTextAnswers THEN Some(txt) ELSE None


(***************************************************************************)
(* cv_vision.py: the cache and extract_text_from_images                    *)
(***************************************************************************)
EmptyDict == [h \in {} |-> <<>>]

\* dict assignment d[k] = v
DictSet(d, k, v) == (k :> v) @@ d

\* _load_cache(): the file's content, {} when it is missing or the read raises
load_cache(readOk) == IF readOk THEN cacheFile ELSE EmptyDict

\* _save_cache that never reaches the file
save_cache_lost(c, writeOk) == cacheFile

\* _save_cache(cache): the file's content afterwards; a failed open() leaves it
save_cache(c, writeOk) == IF writeOk THEN c ELSE cacheFile

\* _save_cache without its try/except: a failed write reaches the caller
save_cache_raises_uncaught(writeOk) == ~writeOk

\* lines 82-86: whether _save_cache raises; `except Exception` logs a warning
save_cache_raises(writeOk) == FALSE

\* how a call of extract_text_from_images ends: `return results`, or an
\* exception that reaches the caller
Returned(res) == [raised |-> FALSE, value |-> res]
Raised == [raised |-> TRUE, value |-> <<>>]

\* the cache test written as `use_cache and cache.get(image_hash)`
CacheHit_truthy(uc, c, h) == uc /\ h \in DOMAIN c /\ c[h] # <<>>

\* the test `use_cache and image_hash in cache`
CacheHit(uc, c, h) == uc /\ h \in DOMAIN c

\* the dict after a vision call when only a found text is stored
CacheAfterCall_textonly(c, h, txt) ==
    IF Truthy(txt) THEN DictSet(c, h, txt.val) ELSE c

\* the dict after a vision call that returned `text` (both branches assign)
CacheAfterCall(c, h, txt) ==
    IF Truthy(txt) THEN DictSet(c, h, txt.val) ELSE DictSet(c, h, <<>>)

\* ImageText(page_num, image_index, text, image_hash)
ImageText(img, txt, h) ==
    [page_num |-> img[1], image_index |-> img[2], text |-> txt, image_hash |-> h]

\* the for loop with a failed image emptying the list built so far
ResultsAfter_reset(res, img, txt, h) ==
    IF Truthy(txt) THEN Append(res, ImageText(img, txt.val, h)) ELSE <<>>

\* `if text: results.append(ImageText(...))`
ResultsAfter(res, img, txt, h) ==
    IF Truthy(txt) THEN Append(res, ImageText(img, txt.val, h)) ELSE res

\* the embedded images of a document handed to extract_text_from_images: up
\* to MaxImgs large images, on one page in a PDF
VisionDocs ==
    UNION { { [i \in 1..n |-> [bytes |-> bs[i], fails |-> FALSE, name |-> ".png"]]
              : bs \in [1..n -> ImageBytes] } : n \in 0..MaxImgs }

\* lines 266-272: the image lists extract_images_from_pdf / _docx hand over
Suffixes == {".pdf", ".docx", ".txt"}
PdfImageLists == { extract_images_from_pdf(<<d>>, TRUE) : d \in VisionDocs }
DocxImageLists == { extract_images_from_docx(d, TRUE) : d \in VisionDocs }
ImageLists(suffix) ==
    IF suffix = ".pdf" THEN PdfImageLists
    ELSE IF suffix = ".docx" THEN DocxImageLists
    ELSE { <<>> }

ZeroCalls == [h \in Hashes |-> 0]
NoOuts == [h \in Hashes |-> {}]

\* cv_vision.py before the first call: no cache file, nothing running
VisionAtRest ==
    /\ cacheFile = EmptyDict
    /\ vpc = "idle"
    /\ use_cache = TRUE
    /\ images = <<>>
    /\ idx = 0
    /\ cache = EmptyDict
    /\ cache_updated = FALSE
    /\ results = <<>>
    /\ vision_ret = Returned(<<>>)
    /\ runs = 0
    /\ calls = ZeroCalls
    /\ runCalls = ZeroCalls
    /\ runFailed = {}
    /\ everNoCache = FALSE
    /\ ioFailed = FALSE
    /\ io = "ok"
    /\ outs = NoOuts

\* a CVProcessor with the default chunk_size and overlap, chunk_text not running
ChunkAtRest ==
    /\ raw = <<>>
    /\ chunk_size = 500
    /\ overlap = 100
    /\ cpc = "done"
    /\ text = <<>>
    /\ start = 0
    /\ chunks = <<>>
    /\ iter = 0
    /\ trace = <<>>

\* process_cv not running
CvAtRest ==
    /\ matricula = "E001"
    /\ filename = "cv.pdf"
    /\ ext = ".pdf"
    /\ doc = <<>>
    /\ parser_ok = TRUE
    /\ use_vision = FALSE
    /\ vision_out = [raised |-> FALSE, image_texts |-> <<>>]
    /\ cvpc = "done"
    /\ pages = <<>>
    /\ pidx = 0
    /\ cv_chunks = <<>>
    /\ chunk_id = 0
    /\ body_len = 0

\* no image extraction running
ImgAtRest ==
    /\ img_file = [suffix |-> ".pdf", pages |-> <<>>, open_ok |-> TRUE]
    /\ ipc = "done"
    /\ img_ret = <<>>

\* process_all not running
EmptyMapping == [n \in {} |-> ""]
BatchAtRest ==
    /\ folder_exists = TRUE
    /\ folder = <<>>
    /\ mapping = EmptyMapping
    /\ bpc = "done"
    /\ cv_files = <<>>
    /\ fidx = 0
    /\ all_chunks = <<>>
    /\ processed = 0
    /\ skipped = 0

\* clean_text not running
CleanAtRest ==
    /\ clean_in = <<>>
    /\ clpc = "twice"
    /\ clean_out = <<>>
    /\ clean_again = <<>>

InitVision ==
    VisionAtRest /\ ChunkAtRest /\ CvAtRest /\ ImgAtRest /\ BatchAtRest /\ CleanAtRest

\* extract_text_from_images, lines 259-278, called with use_cache = uc on a
\* file of this suffix whose extractor hands over imgs: load the cache, pick
\* the images, return at once for an unsupported suffix or a document
\* without images
StartRun(uc, readOk, suffix, imgs) ==
    /\ IF suffix \in {".pdf", ".docx"} /\ imgs # <<>>
       THEN /\ vpc' = "loop"
            /\ use_cache' = uc
            /\ cache' = IF uc THEN load_cache(readOk) ELSE EmptyDict
            /\ images' = imgs
       ELSE /\ vpc' = "idle"
            /\ UNCHANGED << use_cache, cache, images >>
    /\ cache_updated' = FALSE
    /\ results' = <<>>
    /\ vision_ret' = Returned(<<>>)
    /\ idx' = 0
    /\ everNoCache' = (everNoCache \/ ~uc)
    /\ ioFailed' = (ioFailed \/ ~readOk)
    /\ io' = IF readOk THEN "ok" ELSE "read_failed"
    /\ runs' = runs + 1
    /\ runCalls' = ZeroCalls
    /\ runFailed' = {}
    /\ UNCHANGED << cacheFile, calls, outs >>
    /\ UNCHANGED << chunkVars, cvVars, batchVars, cleanVars >>

\* a call of extract_text_from_images on some document
extract_text_start ==
    /\ vpc = "idle"
    /\ runs < MaxRuns
    /\ \E uc \in BOOLEAN, suffix \in Suffixes :
       \E readOk \in (IF uc THEN BOOLEAN ELSE {TRUE}), imgs \in ImageLists(suffix) :
          StartRun(uc, readOk, suffix, imgs)
    /\ UNCHANGED imgVars

\* one iteration of the for loop, lines 280-306, served from the cache
extract_text_image_hit ==
    /\ vpc = "loop"
    /\ idx < Len(images)
    /\ LET img == images[idx + 1]
           h == get_image_hash(img[3])
       IN  /\ CacheHit(use_cache, cache, h)
           /\ results' = ResultsAfter(results, img, Some(cache[h]), h)
           /\ outs' = [outs EXCEPT ![h] = @ \cup {cache[h]}]
    /\ idx' = idx + 1
    /\ UNCHANGED << cacheFile, vpc, use_cache, images, cache, cache_updated,
                    vision_ret, runs, calls, runCalls, runFailed, everNoCache,
                    ioFailed, io >>
    /\ UNCHANGED << chunkVars, cvVars, imgVars, batchVars, cleanVars >>

\* one iteration of the for loop, lines 280-306, with a vision-model call
extract_text_image_call ==
    /\ vpc = "loop"
    /\ idx < Len(images)
    /\ LET img == images[idx + 1]
           h == get_image_hash(img[3])
       IN  /\ ~CacheHit(use_cache, cache, h)
           /\ \E resp \in Responses :
                LET txt == call_gemini_vision(resp)
                IN  /\ cache' = CacheAfterCall(cache, h, txt)
                    /\ results' = ResultsAfter(results, img, txt, h)
                    /\ runFailed' = IF IsFailure(resp) THEN runFailed \cup {h}
                                                        ELSE runFailed \ {h}
                    /\ outs' = [outs EXCEPT ![h] =
                                  @ \cup {IF Truthy(txt) THEN txt.val ELSE <<>>}]
           /\ cache_updated' = TRUE
           /\ calls' = [calls EXCEPT ![h] = Min(@ + 1, 2)]
           /\ runCalls' = [runCalls EXCEPT ![h] = @ + 1]
    /\ idx' = idx + 1
    /\ UNCHANGED << cacheFile, vpc, use_cache, images, vision_ret, runs, everNoCache,
                    ioFailed, io >>
    /\ UNCHANGED << chunkVars, cvVars, imgVars, batchVars, cleanVars >>

\* lines 308-312: save the cache when it changed, return the results
\* (`results` in the state before this step is the list returned; the locals
\* go away with the call)
extract_text_finish ==
    /\ vpc = "loop"
    /\ idx = Len(images)
    /\ \E writeOk \in (IF cache_updated THEN BOOLEAN ELSE {TRUE}) :
          /\ cacheFile' = IF cache_updated THEN save_cache(cache, writeOk) ELSE cacheFile
          /\ ioFailed' = (ioFailed \/ ~writeOk)
          /\ io' = IF ~cache_updated THEN io
                   ELSE IF writeOk THEN "ok" ELSE "write_failed"
          /\ vision_ret' = IF cache_updated /\ save_cache_raises(writeOk)
                           THEN Raised ELSE Returned(results)
    /\ vpc' = "idle"
    /\ images' = <<>>
    /\ idx' = 0
    /\ cache' = EmptyDict
    /\ cache_updated' = FALSE
    /\ use_cache' = TRUE
    /\ results' = <<>>
    /\ runCalls' = ZeroCalls
    /\ runFailed' = {}
    /\ UNCHANGED << runs, calls, everNoCache, outs >>
    /\ UNCHANGED << chunkVars, cvVars, imgVars, batchVars, cleanVars >>

NextVision ==
    \/ extract_text_start
    \/ extract_text_image_hit
    \/ extract_text_image_call
    \/ extract_text_finish

SpecVision == InitVision /\ [][NextVision]_vars

(***************************************************************************)
(* Claims about the vision cache (checked under SpecVision)                *)
(***************************************************************************)
\* the step that returns from extract_text_from_images after the loop
ReturnsFromLoop == vpc = "loop" /\ vpc' = "idle"
\* the step that handles the next image of the list
HandlesImage == vpc = "loop" /\ idx' = idx + 1
HashAt(i) == get_image_hash(images[i][3])

\* C1: a vision call that fails is not cached as a negative result: when
\* extract_text_from_images returns, a hash whose vision call failed in this
\* run, and that had no entry in the cache file, still has none.
C1_FailedCallNotCached ==
    [][ReturnsFromLoop =>
          \A h \in runFailed \ DOMAIN cacheFile : h \notin DOMAIN cacheFile']_vars

\* C2: the persisted cache is append-mostly: no step removes a persisted hash
\* or changes its text.
C2_CacheAppendMostly ==
    [][\A h \in DOMAIN cacheFile :
          h \in DOMAIN cacheFile' /\ cacheFile'[h] = cacheFile[h]]_vars

C4_NegativeCache ==
    [][HandlesImage =>
          LET h == HashAt(idx + 1)
          IN  /\ (use_cache /\ h \in DOMAIN cache /\ cache[h] = <<>>)
                    => (runCalls' = runCalls /\ results' = results /\ cache' = cache)
              /\ (use_cache /\ h \notin DOMAIN cache)
                    => runCalls'[h] = runCalls[h] + 1
              /\ (runCalls'[h] # runCalls[h] /\ results' = results)
                    => (h \in DOMAIN cache' /\ cache'[h] = <<>>)]_vars

\* an image was just served from a "" entry that no call of this run wrote
C4_Witness ==
    /\ vpc = "loop" /\ use_cache /\ idx >= 1
    /\ HashAt(idx) \in DOMAIN cache /\ cache[HashAt(idx)] = <<>>
    /\ runCalls[HashAt(idx)] = 0

\* C5: with caching on, a vision call is made for a hash only when the lookup
\* found it absent, and at most one call per hash is made within one run.
C5_LookupBeforeCall ==
    [][use_cache =>
          \A h \in Hashes :
              /\ runCalls'[h] <= 1
              /\ runCalls'[h] > runCalls[h] => h \notin DOMAIN cache]_vars

\* the second copy of an image in one document was served from the entry the
\* first copy's call wrote
C5_Witness ==
    /\ vpc = "loop" /\ use_cache /\ idx = 2
    /\ images[1][3] = images[2][3]
    /\ runCalls[HashAt(2)] = 1

(***************************************************************************)
(* cv_processor.py: CVProcessor.chunk_text                                 *)
(***************************************************************************)
\* line 219: text = re.sub(r'\s+', ' ', text).strip()
NormalizeForChunking(s) == Strip(CollapseWs(s))

\* lines 221-225 with the test for the empty text left out
EarlyReturn_noempty(t) == <<t>>

\* lines 221-225: the list returned without entering the loop
EarlyReturn(t) == IF t = <<>> THEN <<>> ELSE <<t>>

\* line 237, in the order searched
Separators == << <<".", " ">>, <<"\n">>, <<",", " ">>, <<" ">> >>

\* lines 236-241: best_cut, with None given as 0 (line 243 tests its truth)
BestCut(t, cs, st, end) ==
    LET hits == {k \in 1..Len(Separators) : RFind(t, Separators[k], st + cs \div 2, end) > st}
    IN  IF hits = {} THEN 0
        ELSE LET sep == Separators[SetMin(hits)]
             IN  RFind(t, sep, st + cs \div 2, end) + Len(sep)

\* lines 231-244: the end of the window that starts at st
WindowEnd(t, cs, st) ==
    LET end == st + cs
    IN  IF end < Len(t)
        THEN (IF BestCut(t, cs, st, end) # 0 THEN BestCut(t, cs, st, end) ELSE end)
        ELSE end

\* line 252 without the overlap
NextStart_nooverlap(end, ov) == end

\* line 252: start = end - self.overlap
NextStart(end, ov) == end - ov

\* line 255: the break test
BreaksLoop(t, st) == st >= Len(t) - 10

\* the texts handed to chunk_text: up to three words of letters with up to two
\* marks between or around them, MaxLen characters at most
Marks == { <<>>, <<" ">>, <<"\n">>, <<".", " ">>, <<",", " ">>, <<".">> }
Word(n) == [i \in 1..n |-> "a"]
RawTexts ==
    { Word(n1) \o m1 \o Word(n2) \o m2 \o Word(n3) :
        <<n1, n2, n3, m1, m2>> \in
            { q \in (0..MaxLen) \X (0..MaxLen) \X (0..MaxLen) \X Marks \X Marks :
                q[1] + q[2] + q[3] + Len(q[4]) + Len(q[5]) <= MaxLen } }

InitChunk ==
    /\ VisionAtRest
    /\ CvAtRest
    /\ ImgAtRest
    /\ BatchAtRest
    /\ CleanAtRest
    /\ raw \in RawTexts
    /\ chunk_size \in 1..MaxChunk
    /\ overlap \in 0..(chunk_size - 1)
    /\ cpc = "call"
    /\ text = <<>>
    /\ start = 0
    /\ chunks = <<>>
    /\ iter = 0
    /\ trace = <<>>

\* lines 219-228: normalise, return early, or enter the loop with start = 0
chunk_text_begin ==
    /\ cpc = "call"
    /\ text' = NormalizeForChunking(raw)
    /\ IF text' = <<>> \/ Len(text') <= chunk_size
       THEN /\ chunks' = EarlyReturn(text')
            /\ cpc' = "done"
       ELSE /\ chunks' = <<>>
            /\ cpc' = "loop"
    /\ start' = 0
    /\ UNCHANGED << raw, chunk_size, overlap, iter, trace >>
    /\ UNCHANGED << visionVars, cvVars, imgVars, batchVars, cleanVars >>

\* lines 230-256: one iteration of the while loop, up to the next while test
chunk_text_iter ==
    /\ cpc = "loop"
    /\ iter < MaxIter
    /\ LET end == WindowEnd(text, chunk_size, start)
           chunk == Strip(Slice(text, start, end))
       IN  /\ chunks' = IF chunk # <<>> THEN Append(chunks, chunk) ELSE chunks
           /\ start' = NextStart(end, overlap)
           /\ trace' = Append(trace, [start |-> start, end |-> end, emitted |-> chunk # <<>>])
    /\ cpc' = IF BreaksLoop(text, start') \/ ~(start' < Len(text)) THEN "done" ELSE "loop"
    /\ iter' = iter + 1
    /\ UNCHANGED << raw, chunk_size, overlap, text >>
    /\ UNCHANGED << visionVars, cvVars, imgVars, batchVars, cleanVars >>

NextChunk ==
    \/ chunk_text_begin
    \/ chunk_text_iter

SpecChunk == InitChunk /\ [][NextChunk]_vars

(***************************************************************************)
(* Claims about chunk_text (checked under SpecChunk)                       *)
(***************************************************************************)
IsEmitted(w) == w.emitted
\* the windows of the chunks in `chunks`, in order (the loop was entered)
EmittedWindows == SelectSeq(trace, IsEmitted)

\* the positions of `text` that the returned chunks were cut from
CoveredPositions ==
    IF iter = 0
    THEN (IF chunks = <<text>> THEN 0..(Len(text) - 1) ELSE {})
    ELSE UNION { SlicePositions(text, trace[i].start, trace[i].end) :
                   i \in {j \in 1..Len(trace) : trace[j].emitted} }

\* s[-k:] and s[:k]
LastChars(s, k) == Slice(s, 0 - k, Len(s))
FirstChars(s, k) == Slice(s, 0, k)

\* C6: chunk coverage: when chunk_text has returned, every non-whitespace
\* character position of the whitespace-collapsed text lies in a returned chunk.
C6_ChunkCoverage ==
    cpc = "done" =>
        \A p \in 0..(Len(text) - 1) : ~IsSpace(text[p + 1]) => p \in CoveredPositions

\* C7: chunk_text terminates. The text and the configuration are fixed and the
\* loop body is a function of start, so the loop reaches its exit only if no
\* iteration comes back to the while test with the start it left with.
C7_Terminates ==
    [][(cpc = "loop" /\ cpc' = "loop") => start' # start]_vars

\* C8 as stated: for consecutive returned chunks c[i], c[i+1] and overlap k > 0, when
\* the window of c[i] ended on the raw chunk_size boundary, the last k
\* characters of c[i] are the first k characters of c[i+1].
C8_AsStated ==
    cpc = "done" =>
        \A i \in 1..(Len(chunks) - 1) :
            (overlap > 0 /\ iter > 0
               /\ EmittedWindows[i].end = EmittedWindows[i].start + chunk_size)
            => LastChars(chunks[i], overlap) = FirstChars(chunks[i + 1], overlap)

\* the window of chunk i was cut at start + chunk_size, before the end of the
\* text, and the k characters before the cut neither begin nor end with whitespace
RawCutKeepsOverlap(i) ==
    LET w == EmittedWindows[i]
    IN  /\ overlap > 0 /\ iter > 0
        /\ w.end = w.start + chunk_size
        /\ w.end < Len(text)
        /\ w.end - overlap >= 0
        /\ ~IsSpace(text[w.end - overlap + 1])
        /\ ~IsSpace(text[w.end])

\* C8, amended: for consecutive returned chunks c[i], c[i+1], overlap k > 0, when the
\* window of c[i] was cut on the raw chunk_size boundary before the end of the
\* text and the k characters before the cut neither begin nor end with
\* whitespace, the last k characters of c[i] are the first k of c[i+1].
C8_OverlapInvariant ==
    cpc = "done" =>
        \A i \in 1..(Len(chunks) - 1) :
            RawCutKeepsOverlap(i)
            => LastChars(chunks[i], overlap) = FirstChars(chunks[i + 1], overlap)

\* two chunks were returned, the first cut on the raw boundary, sharing k >= 2
\* characters that are not all the same
C8_Witness ==
    /\ cpc = "done" /\ Len(chunks) >= 2 /\ overlap >= 2
    /\ RawCutKeepsOverlap(1)
    /\ \E c \in {".", ","} : \E j \in 1..overlap : FirstChars(chunks[2], overlap)[j] = c

\* " ".join(s.split()): the words of s, one space between them
NonSpaceRun(s) ==
    IF \E i \in 1..Len(s) : IsSpace(s[i])
    THEN SetMin({i \in 1..Len(s) : IsSpace(s[i])}) - 1
    ELSE Len(s)
RECURSIVE SplitWs(_)
SplitWs(s) ==
    IF s = <<>> THEN <<>>
    ELSE IF IsSpace(Head(s)) THEN SplitWs(Tail(s))
    ELSE << SubSeq(s, 1, NonSpaceRun(s)) >> \o SplitWs(SubSeq(s, NonSpaceRun(s) + 1, Len(s)))
RECURSIVE JoinSp(_)
JoinSp(ws) ==
    IF ws = <<>> THEN <<>>
    ELSE IF Len(ws) = 1 THEN ws[1]
    ELSE ws[1] \o <<" ">> \o JoinSp(Tail(ws))
Collapsed(s) == JoinSp(SplitWs(s))

\* C9 as stated: a text whose whitespace-collapsed length is <= chunk_size,
\* the empty one included, gives exactly one chunk, the collapsed trimmed text.
C9_AsStated ==
    (cpc = "done" /\ Len(Collapsed(raw)) <= chunk_size)
    => chunks = << Collapsed(raw) >>

\* C9, amended: a text whose whitespace-collapsed length is between 1 and
\* chunk_size gives exactly one chunk, the collapsed trimmed text; an empty or
\* whitespace-only text gives no chunk.
C9_NoSplit ==
    (cpc = "done" /\ Len(Collapsed(raw)) <= chunk_size)
    => IF Collapsed(raw) = <<>> THEN chunks = <<>> ELSE chunks = << Collapsed(raw) >>

\* a text with whitespace to collapse came back as one chunk of chunk_size characters
C9_Witness ==
    /\ cpc = "done" /\ iter = 0 /\ Len(chunks) = 1
    /\ Len(chunks[1]) < Len(raw) /\ Len(chunks[1]) = chunk_size
    /\ \E i \in 1..Len(chunks[1]) : chunks[1][i] = " "

(***************************************************************************)
(* cv_processor.py: CVProcessor.clean_text                                 *)
(***************************************************************************)
\* the one character of [\x00-\x08\x0b\x0c\x0e-\x1f\x7f] in the alphabet (\x0c)
ControlChars == {"\f"}

\* [a-zA-Z]
AsciiLetters ==
    { "a", "b", "c", "d", "e", "f", "g", "h", "i", "j", "k", "l", "m",
      "n", "o", "p", "q", "r", "s", "t", "u", "v", "w", "x", "y", "z",
      "A", "B", "C", "D", "E", "F", "G", "H", "I", "J", "K", "L", "M",
      "N", "O", "P", "Q", "R", "S", "T", "U", "V", "W", "X", "Y", "Z" }
IsAsciiLetter(c) == c \in AsciiLetters
IsControl(c) == c \in ControlChars
NotControl(c) == ~IsControl(c)

\* line 182: re.sub(r'[\x00-\x08\x0b\x0c\x0e-\x1f\x7f]', '', text)
RemoveControl(s) == SelectSeq(s, NotControl)

\* line 185: text.replace('\r\n', '\n')
ReplaceCRLF(s) ==
    LET marked == [i \in 1..Len(s) |->
                      IF s[i] = "\r" /\ i < Len(s) /\ s[i + 1] = "\n" THEN "" ELSE s[i]]
        Kept(c) == c # ""
    IN  SelectSeq(marked, Kept)

\* line 185: .replace('\r', '\n')
ReplaceCR(s) == [i \in 1..Len(s) |-> IF s[i] = "\r" THEN "\n" ELSE s[i]]

\* line 188: text.split('\n'), empty pieces kept
RECURSIVE SplitLines(_)
SplitLines(s) ==
    LET nl == {i \in 1..Len(s) : s[i] = "\n"}
    IN  IF nl = {} THEN <<s>>
        ELSE <<SubSeq(s, 1, SetMin(nl) - 1)>>
                 \o SplitLines(SubSeq(s, SetMin(nl) + 1, Len(s)))

\* line 193: len(re.sub(r'[^a-zA-Z]', '', line))
AlphaCount(line) == Len(SelectSeq(line, IsAsciiLetter))

\* line 193: the test on a stripped line
KeepLine(line) == line # <<>> /\ AlphaCount(line) >= 3

\* lines 189-194: strip every line, keep those that pass the test
CleanedLines(lines) ==
    SelectSeq([i \in 1..Len(lines) |-> Strip(lines[i])], KeepLine)

\* '\n'.join(...)
RECURSIVE JoinLines(_)
JoinLines(lines) ==
    IF lines = <<>> THEN <<>>
    ELSE IF Len(lines) = 1 THEN lines[1]
    ELSE lines[1] \o <<"\n">> \o JoinLines(Tail(lines))

IsBlank(c) == c \in {" ", "\t"}

\* re.sub(r'[ \t]{2}', ' ', text): pairs of blanks become one space, once
CollapseBlanks_pairs(s) ==
    LET RunStart(i) == SetMax({0} \cup {j \in 1..i : ~IsBlank(s[j])})
        marked == [i \in 1..Len(s) |->
                      IF ~IsBlank(s[i]) THEN s[i]
                      ELSE IF (i - RunStart(i)) % 2 = 0 THEN ""
                      ELSE IF i < Len(s) /\ IsBlank(s[i + 1]) THEN " "
                      ELSE s[i]]
        Kept(c) == c # ""
    IN  SelectSeq(marked, Kept)

\* line 199: re.sub(r'[ \t]+', ' ', text)
CollapseBlanks(s) ==
    LET marked == [i \in 1..Len(s) |->
                      IF ~IsBlank(s[i]) THEN s[i]
                      ELSE IF i > 1 /\ IsBlank(s[i - 1]) THEN "" ELSE " "]
        Kept(c) == c # ""
    IN  SelectSeq(marked, Kept)

\* line 202: re.sub(r'\n{3,}', '\n\n', text)
CollapseNewlines(s) ==
    LET marked == [i \in 1..Len(s) |->
                      IF s[i] = "\n" /\ i > 2 /\ s[i - 1] = "\n" /\ s[i - 2] = "\n"
                      THEN "" ELSE s[i]]
        Kept(c) == c # ""
    IN  SelectSeq(marked, Kept)

\* lines 178-204
clean_text(s) ==
    IF s = <<>> THEN <<>>
    ELSE Strip(CollapseNewlines(CollapseBlanks(JoinLines(
             CleanedLines(SplitLines(ReplaceCR(ReplaceCRLF(RemoveControl(s)))))))))

(***************************************************************************)
(* cv_processor.py: chunk_text as process_cv calls it                      *)
(***************************************************************************)
\* lines 230-256 from the window that starts at st, acc being the chunks so
\* far and seen the values start has had. start alone decides the window, so
\* a value of start that comes back is a loop that never ends.
RECURSIVE ChunkLoop(_, _, _, _, _, _)
ChunkLoop(t, cs, ov, st, acc, seen) ==
    LET end == WindowEnd(t, cs, st)
        chunk == Strip(Slice(t, st, end))
        acc2 == IF chunk # <<>> THEN Append(acc, chunk) ELSE acc
        st2 == NextStart(end, ov)
    IN  IF BreaksLoop(t, st2) \/ ~(st2 < Len(t))
        THEN [returns |-> TRUE, chunks |-> acc2]
        ELSE IF st2 \in seen
             THEN [returns |-> FALSE, chunks |-> <<>>]
             ELSE ChunkLoop(t, cs, ov, st2, acc2, seen \cup {st2})

\* lines 219-258: what the call comes to, a list or no return at all
chunk_text(s, cs, ov) ==
    LET t == NormalizeForChunking(s)
    IN  IF t = <<>> \/ Len(t) <= cs
        THEN [returns |-> TRUE, chunks |-> EarlyReturn(t)]
        ELSE ChunkLoop(t, cs, ov, 0, <<>>, {0})

(***************************************************************************)
(* cv_vision.py: process_cv_with_vision                                    *)
(***************************************************************************)
Digits == <<"0", "1", "2", "3", "4", "5", "6", "7", "8", "9">>

\* str(n) of an integer n >= 0
RECURSIVE IntStr(_)
IntStr(n) ==
    IF n < 10 THEN <<Digits[n + 1]>>
    ELSE IntStr(n \div 10) \o <<Digits[(n % 10) + 1]>>

\* line 330: "[Imagen pag.N]" for an image of page N > 0, "[Imagen]" otherwise
ImagePrefix(page_num) ==
    IF page_num > 0
    THEN <<"[", "I", "m", "a", "g", "e", "n", " ", "p", "a", "g", ".">>
             \o IntStr(page_num) \o <<"]">>
    ELSE <<"[", "I", "m", "a", "g", "e", "n", "]">>

\* lines 323-334, given the list extract_text_from_images returned
process_cv_with_vision(image_texts) ==
    IF image_texts = <<>> THEN <<>>
    ELSE JoinLines([i \in 1..Len(image_texts) |->
             ImagePrefix(image_texts[i].page_num) \o <<" ">> \o image_texts[i].text])

(***************************************************************************)
(* cv_processor.py: the text extractors and CVProcessor.process_cv         *)
(***************************************************************************)
\* pages (or paragraphs) of one document
MaxPages == 2

\* lines 299 and 322: chunks shorter than this are not kept
MinChunkLen == 20

\* the argument matricula and filepath.name
Matricula == "E001"
FileName(e) == IF e = ".pdf" THEN "cv.pdf"
               ELSE IF e = ".docx" THEN "cv.docx"
               ELSE IF e = ".doc" THEN "cv.doc" ELSE "cv.txt"

\* line 116: the page has text
HasText(t) == Strip(t) # <<>>

\* the pages with text numbered by their place in the returned list
NonBlankPages_renumbered(d, n) ==
    LET kept == SelectSeq(d, HasText)
    IN  [i \in 1..Len(kept) |-> <<i, kept[i]>>]

RECURSIVE NonBlankPages(_, _)
\* lines 114-117: (page_num, text) of the pages from number n on that have text
NonBlankPages(d, n) ==
    IF n > Len(d) THEN <<>>
    ELSE (IF Strip(d[n]) # <<>> THEN << <<n, d[n]>> >> ELSE <<>>)
             \o NonBlankPages(d, n + 1)

\* lines 107-123
extract_text_from_pdf(d, ok) == IF ok THEN NonBlankPages(d, 1) ELSE <<>>

NonEmpty(s) == s # <<>>

\* lines 138-168: paragraphs and cells stripped, the empty ones dropped,
\* the rest joined into the text of page 1
extract_text_from_docx(d, ok) ==
    LET paragraphs == SelectSeq([i \in 1..Len(d) |-> Strip(d[i])], NonEmpty)
        full_text == JoinLines(paragraphs)
    IN  IF ok /\ full_text # <<>> THEN << <<1, full_text>> >> ELSE <<>>

\* line 328 without the prefix
ImagenPrefix_none == <<>>

\* line 328: the prefix of an image-derived chunk
ImagenPrefix == <<"[", "I", "M", "A", "G", "E", "N", "]", " ">>

\* lines 302-308 and 325-331
CVChunk(cid, txt, page_num, e) ==
    [matricula |-> e.matricula, chunk_id |-> cid, text |-> txt,
     page_num |-> page_num, cv_filename |-> e.name]

\* the inner for loop without the test on the length
RECURSIVE EmitChunks_keepall(_, _, _, _, _, _)
EmitChunks_keepall(acc, cid, strs, page_num, prefix, e) ==
    IF strs = <<>> THEN [chunks |-> acc, chunk_id |-> cid]
    ELSE EmitChunks_keepall(Append(acc, CVChunk(cid, prefix \o strs[1], page_num, e)),
                            cid + 1, Tail(strs), page_num, prefix, e)

\* the inner for loop with chunk_id counting the discarded chunks too
RECURSIVE EmitChunks_countall(_, _, _, _, _, _)
EmitChunks_countall(acc, cid, strs, page_num, prefix, e) ==
    IF strs = <<>> THEN [chunks |-> acc, chunk_id |-> cid]
    ELSE IF Len(strs[1]) < MinChunkLen
         THEN EmitChunks_countall(acc, cid + 1, Tail(strs), page_num, prefix, e)
         ELSE EmitChunks_countall(Append(acc, CVChunk(cid, prefix \o strs[1], page_num, e)),
                                  cid + 1, Tail(strs), page_num, prefix, e)

\* lines 298-309 and 321-332: the inner for loop over the strings of one
\* chunk_text call, from the list acc and the counter cid
RECURSIVE EmitChunks(_, _, _, _, _, _)
EmitChunks(acc, cid, strs, page_num, prefix, e) ==
    IF strs = <<>> THEN [chunks |-> acc, chunk_id |-> cid]
    ELSE IF Len(strs[1]) < MinChunkLen
         THEN EmitChunks(acc, cid, Tail(strs), page_num, prefix, e)
         ELSE EmitChunks(Append(acc, CVChunk(cid, prefix \o strs[1], page_num, e)),
                         cid + 1, Tail(strs), page_num, prefix, e)

\* the texts of a page or paragraph
PageBlank == <<" ", "\n">>
PageDigits == <<"1", "2", " ", "3", "4">>
PageShort == Word(5)
PageSentence ==
    Word(10) \o <<" ">> \o Word(10) \o <<" ">> \o Word(10) \o <<".", " ">> \o Word(12)
PageSolid == Word(50)
PageLines == Word(22) \o <<"\r", "\n", "1", "\f", "\n", " ", "\t">> \o Word(3)
PageTexts == { PageBlank, PageDigits, PageShort, PageSentence, PageSolid, PageLines }
Docs == UNION { [1..n -> PageTexts] : n \in 0..MaxPages }

\* filepath.suffix.lower()
Exts == { ".pdf", ".docx", ".doc", ".txt" }

\* (chunk_size, overlap) of the CVProcessor: the defaults and two others
CVConfigs == { <<500, 100>>, <<24, 4>>, <<24, 13>> }

\* what the vision model read off the images of the document
TextCert == <<"C", "e", "r", "t">> \o <<" ">> \o Word(20)
VisionTextLists == { <<>>, <<TextCert>>, <<TextAWS>>, <<TextAWS, TextCert>> }

\* the list extract_text_from_images returns: page_num is 0 in a DOCX
ImageTextsOf(txts, e) ==
    [i \in 1..Len(txts) |->
        [page_num |-> IF e = ".pdf" THEN i ELSE 0, image_index |-> i - 1,
         text |-> txts[i], image_hash |-> IF i = 1 THEN "md5A" ELSE "md5B"]]

NoVision == [raised |-> FALSE, image_texts |-> <<>>]
VisionOuts(e) ==
    { [raised |-> TRUE, image_texts |-> <<>>] }
      \cup { [raised |-> FALSE, image_texts |-> ImageTextsOf(txts, e)] :
                txts \in VisionTextLists }

Init ==
    /\ VisionAtRest
    /\ ImgAtRest
    /\ BatchAtRest
    /\ CleanAtRest
    /\ raw = <<>> /\ cpc = "done" /\ text = <<>> /\ start = 0
    /\ chunks = <<>> /\ iter = 0 /\ trace = <<>>
    /\ \E c \in CVConfigs : chunk_size = c[1] /\ overlap = c[2]
    /\ ext \in Exts
    /\ matricula = Matricula
    /\ filename = FileName(ext)
    /\ doc \in Docs
    /\ parser_ok \in BOOLEAN
    /\ use_vision \in BOOLEAN
    /\ vision_out \in (IF use_vision THEN VisionOuts(ext) ELSE {NoVision})
    /\ cvpc = "call"
    /\ pages = <<>>
    /\ pidx = 0
    /\ cv_chunks = <<>>
    /\ chunk_id = 0
    /\ body_len = 0

\* lines 271-287: extract the pages; return [] for an unsupported suffix or a
\* document without text
process_cv_begin ==
    /\ cvpc = "call"
    /\ pages' = IF ext = ".pdf" THEN extract_text_from_pdf(doc, parser_ok)
                ELSE IF ext \in {".docx", ".doc"} THEN extract_text_from_docx(doc, parser_ok)
                ELSE <<>>
    /\ cvpc' = IF pages' = <<>> THEN "done" ELSE "pages"
    /\ cv_chunks' = <<>>
    /\ chunk_id' = 0
    /\ body_len' = 0
    /\ pidx' = 0
    /\ UNCHANGED << matricula, filename, ext, doc, parser_ok, use_vision, vision_out >>
    /\ UNCHANGED << visionVars, chunkVars, imgVars, batchVars, cleanVars >>

\* lines 290-309: one page of the for loop
process_cv_page ==
    /\ cvpc = "pages"
    /\ pidx < Len(pages)
    /\ LET page_num == pages[pidx + 1][1]
           cleaned_text == clean_text(pages[pidx + 1][2])
           r == chunk_text(cleaned_text, chunk_size, overlap)
           e == EmitChunks(cv_chunks, chunk_id, r.chunks, page_num, <<>>,
                           [matricula |-> matricula, name |-> filename])
       IN  IF cleaned_text = <<>>
           THEN /\ pidx' = pidx + 1
                /\ UNCHANGED << cvpc, cv_chunks, chunk_id, body_len >>
           ELSE IF ~r.returns
           THEN /\ cvpc' = "hung"
                /\ UNCHANGED << pidx, cv_chunks, chunk_id, body_len >>
           ELSE /\ pidx' = pidx + 1
                /\ cv_chunks' = e.chunks
                /\ chunk_id' = e.chunk_id
                /\ body_len' = Len(e.chunks)
                /\ UNCHANGED cvpc
    /\ UNCHANGED << matricula, filename, ext, doc, parser_ok, use_vision, vision_out, pages >>
    /\ UNCHANGED << visionVars, chunkVars, imgVars, batchVars, cleanVars >>

\* lines 312-336: the image-derived chunks, then the return
process_cv_finish ==
    /\ cvpc = "pages"
    /\ pidx = Len(pages)
    /\ LET vision_text == process_cv_with_vision(vision_out.image_texts)
           cleaned_vision == clean_text(vision_text)
           r == chunk_text(cleaned_vision, chunk_size, overlap)
           e == EmitChunks(cv_chunks, chunk_id, r.chunks, 0, ImagenPrefix,
                           [matricula |-> matricula, name |-> filename])
       IN  IF ~use_vision \/ vision_out.raised \/ vision_text = <<>>
                \/ cleaned_vision = <<>>
           THEN /\ cvpc' = "done"
                /\ UNCHANGED << cv_chunks, chunk_id >>
           ELSE IF ~r.returns
           THEN /\ cvpc' = "hung"
                /\ UNCHANGED << cv_chunks, chunk_id >>
           ELSE /\ cvpc' = "done"
                /\ cv_chunks' = e.chunks
                /\ chunk_id' = e.chunk_id
    /\ UNCHANGED << matricula, filename, ext, doc, parser_ok, use_vision, vision_out,
                    pages, pidx, body_len >>
    /\ UNCHANGED << visionVars, chunkVars, imgVars, batchVars, cleanVars >>

Next ==
    \/ process_cv_begin
    \/ process_cv_page
    \/ process_cv_finish

Spec == Init /\ [][Next]_vars

(***************************************************************************)
(* Claims about process_cv                                                 *)
(***************************************************************************)
\* the page loop found a page that was empty after cleaning
SomePageEmptyAfterCleaning ==
    \E p \in 1..Len(pages) : clean_text(pages[p][2]) = <<>>

\* some chunk of a page was shorter than MinChunkLen and so discarded
SomeChunkDiscarded ==
    \E p \in 1..Len(pages) :
        LET r == chunk_text(clean_text(pages[p][2]), chunk_size, overlap)
        IN  r.returns /\ \E k \in 1..Len(r.chunks) : Len(r.chunks[k]) < MinChunkLen

\* C10: in the list process_cv returns for one document the i-th chunk
\* (0-based) has chunk_id = i, so chunk_id starts at 0 and is unique and
\* strictly increasing along the list, whatever was discarded or skipped and
\* with the image-derived chunks after the body chunks
C10_ChunkIdIsIndex ==
    cvpc = "done" =>
        \A i \in 1..Len(cv_chunks) : cv_chunks[i].chunk_id = i - 1

\* a returned list with a body chunk followed by an image-derived chunk, from
\* a document with a page empty after cleaning and a discarded short chunk
C10_Witness ==
    /\ cvpc = "done"
    /\ Len(cv_chunks) >= 2
    /\ cv_chunks[1].page_num > 0
    /\ cv_chunks[Len(cv_chunks)].page_num = 0
    /\ SomePageEmptyAfterCleaning
    /\ SomeChunkDiscarded

\* s.startswith(pre)
StartsWith(s, pre) == Len(pre) <= Len(s) /\ SubSeq(s, 1, Len(pre)) = pre

\* the chunk at position i of cv_chunks came from the page loop / from the images
IsBodyChunk(i) == i \in 1..body_len
IsImageChunk(i) == i \in (body_len + 1)..Len(cv_chunks)

\* C11: in the list process_cv returns the body chunks are in non-decreasing
\* page order, every image-derived chunk comes after all body chunks and has
\* page_num 0 and a text that begins with "[IMAGEN] ", and no body chunk has
\* page_num 0
C11_SourceOrder ==
    cvpc = "done" =>
        /\ \A i \in 1..Len(cv_chunks) :
              /\ IsBodyChunk(i) => cv_chunks[i].page_num > 0
              /\ IsImageChunk(i) =>
                    /\ cv_chunks[i].page_num = 0
                    /\ StartsWith(cv_chunks[i].text,
                                  <<"[", "I", "M", "A", "G", "E", "N", "]", " ">>)
        /\ \A i, j \in 1..body_len :
              i < j => cv_chunks[i].page_num <= cv_chunks[j].page_num

\* a returned list with body chunks of two pages followed by an image chunk
C11_Witness ==
    /\ cvpc = "done"
    /\ body_len >= 2
    /\ cv_chunks[1].page_num < cv_chunks[body_len].page_num
    /\ Len(cv_chunks) > body_len

\* the strings chunk_text gives for the cleaned text s
ChunkStrings(s) ==
    LET r == chunk_text(clean_text(s), chunk_size, overlap)
    IN  {r.chunks[k] : k \in 1..Len(r.chunks)}

\* the text process_cv_with_vision gave to process_cv
VisionText == process_cv_with_vision(vision_out.image_texts)

\* C12: every chunk process_cv emits carries a string of chunk_text of at
\* least 20 characters (after the "[IMAGEN] " prefix for an image-derived
\* chunk), and the discarded shorter strings use no chunk_id: the counter
\* ends at the number of chunks emitted
C12_ShortChunksDiscarded ==
    cvpc = "done" =>
        /\ chunk_id = Len(cv_chunks)
        /\ \A i \in 1..Len(cv_chunks) :
              /\ IsBodyChunk(i) =>
                    /\ Len(cv_chunks[i].text) >= 20
                    /\ \E p \in 1..Len(pages) :
                          /\ pages[p][1] = cv_chunks[i].page_num
                          /\ cv_chunks[i].text \in ChunkStrings(pages[p][2])
              /\ IsImageChunk(i) =>
                    LET str == SubSeq(cv_chunks[i].text, 10, Len(cv_chunks[i].text))
                    IN  /\ Len(str) >= 20
                        /\ str \in ChunkStrings(VisionText)

\* a returned list with body and image chunks where short strings of a page
\* and of the image text were discarded
C12_Witness ==
    /\ cvpc = "done"
    /\ body_len >= 1
    /\ Len(cv_chunks) > body_len
    /\ SomeChunkDiscarded
    /\ \E str \in ChunkStrings(VisionText) : Len(str) < 20

(***************************************************************************)
(* cv_vision.py: the image extractors run on one document                  *)
(***************************************************************************)
\* embedded images in one document
MaxDocImgs == 27

\* a large image, and the entries that differ from it
PlainItem == [bytes |-> "imgA", fails |-> FALSE, name |-> ".png"]
OddKinds == {"small", "fails", "notimage", "upper"}
OddItem(kind) ==
    CASE kind = "small" -> [PlainItem EXCEPT !.bytes = "icon"]
      [] kind = "fails" -> [PlainItem EXCEPT !.fails = TRUE]
      [] kind = "notimage" -> [PlainItem EXCEPT !.name = ".emf"]
      [] kind = "upper" -> [bytes |-> "imgB", fails |-> FALSE, name |-> ".PNG"]

\* n entries, plain except the one at position pos (none for pos = 0)
ItemsWith(n, pos, kind) ==
    [i \in 1..n |-> IF i = pos THEN OddItem(kind) ELSE PlainItem]

\* n entries where every m-th is odd, the kinds taken in turn
KindInTurn(q) ==
    CASE q % 3 = 0 -> "small"
      [] q % 3 = 1 -> "fails"
      [] q % 3 = 2 -> "notimage"
ItemsEvery(n, m) ==
    [i \in 1..n |-> IF i % m = 0 THEN OddItem(KindInTurn(i \div m)) ELSE PlainItem]

ItemLists ==
    UNION { { ItemsWith(n, pos, kind) : pos \in 0..n, kind \in OddKinds }
               \cup { ItemsEvery(n, m) : m \in 2..4 } : n \in 0..MaxDocImgs }

\* the entries laid out on pages of pp images each
PagesOf(items, pp) ==
    [p \in 1..((Len(items) + pp - 1) \div pp) |->
        SubSeq(items, (p - 1) * pp + 1, Min(p * pp, Len(items)))]

\* images per page of the PDF layouts: one, seven, or all on one page
PageLayouts == {1, 7, MaxDocImgs}

\* the file with these entries: a PDF with pp images a page, or a DOCX
ImageFile(suffix, items, pp, ok) ==
    [suffix |-> suffix,
     pages |-> IF suffix = ".pdf" THEN PagesOf(items, pp) ELSE <<items>>,
     open_ok |-> ok]

InitImages ==
    /\ VisionAtRest
    /\ ChunkAtRest
    /\ CvAtRest
    /\ BatchAtRest
    /\ CleanAtRest
    /\ \E suffix \in {".pdf", ".docx"}, items \in ItemLists,
          pp \in PageLayouts, ok \in BOOLEAN :
          img_file = ImageFile(suffix, items, pp, ok)
    /\ ipc = "call"
    /\ img_ret = <<>>

\* extract_images_from_pdf (lines 156-199) for a PDF
extract_images_pdf ==
    /\ ipc = "call"
    /\ img_file.suffix = ".pdf"
    /\ img_ret' = extract_images_from_pdf(img_file.pages, img_file.open_ok)
    /\ ipc' = "done"
    /\ UNCHANGED img_file
    /\ UNCHANGED << visionVars, chunkVars, cvVars, batchVars, cleanVars >>

\* extract_images_from_docx (lines 202-242) for a DOCX
extract_images_docx ==
    /\ ipc = "call"
    /\ img_file.suffix = ".docx"
    /\ img_ret' = extract_images_from_docx(img_file.pages[1], img_file.open_ok)
    /\ ipc' = "done"
    /\ UNCHANGED img_file
    /\ UNCHANGED << visionVars, chunkVars, cvVars, batchVars, cleanVars >>

NextImages ==
    \/ extract_images_pdf
    \/ extract_images_docx

SpecImages == InitImages /\ [][NextImages]_vars

(***************************************************************************)
(* Claims about the image extractors                                       *)
(***************************************************************************)
\* the embedded images of the pages from page p on, in the order met, each
\* with the page_num and img_index the extractor gives it
RECURSIVE EncountersFrom(_, _, _)
EncountersFrom(pgs, p, isDocx) ==
    IF p > Len(pgs) THEN <<>>
    ELSE [k \in 1..Len(pgs[p]) |->
             [page_num |-> IF isDocx THEN 0 ELSE p, img_index |-> k - 1, item |-> pgs[p][k]]]
         \o EncountersFrom(pgs, p + 1, isDocx)

Encounters == EncountersFrom(img_file.pages, 1, img_file.suffix = ".docx")

\* an image the filter lets through and whose extraction raises no error
QualifiesPdf(enc) == ~enc.item.fails /\ ByteLen(enc.item.bytes) >= 5000
QualifiesDocx(enc) ==
    /\ QualifiesPdf(enc)
    /\ enc.item.name \in {".png", ".jpg", ".jpeg", ".gif", ".bmp", ".PNG"}

\* the qualifying images in the order met, as (page_num, img_index, bytes)
QualifyingImages ==
    LET q == IF img_file.suffix = ".docx" THEN SelectSeq(Encounters, QualifiesDocx)
             ELSE SelectSeq(Encounters, QualifiesPdf)
    IN  [i \in 1..Len(q) |-> <<q[i].page_num, q[i].img_index, q[i].item.bytes>>]

\* C14: for a document (that opens) with more than 20 images that pass the
\* filter, extraction returns exactly 20 records, the 20 met first in page
\* and document order, so it stops at the 20th, within a page or across pages
C14_CapEnforced ==
    (ipc = "done" /\ img_file.open_ok /\ Len(QualifyingImages) > 20) =>
        /\ Len(img_ret) = 20
        /\ img_ret = SubSeq(QualifyingImages, 1, 20)

\* a PDF with more than 20 qualifying images on pages of seven: the list
\* returned ends inside page 3
C14_Witness ==
    /\ ipc = "done" /\ img_file.open_ok /\ img_file.suffix = ".pdf"
    /\ Len(QualifyingImages) > 20
    /\ Len(img_file.pages) >= 3 /\ Len(img_file.pages[1]) = 7
    /\ Len(img_ret) = 20 /\ img_ret[20][1] = 3

\* C15: the images the filter skips (too small; for a DOCX not a
\* png/jpg/jpeg/gif/bmp entry) and those whose extraction raised do not count
\* toward the cap: the list returned for a document that opens is exactly the
\* first min(20, n) of its n qualifying images, in the order met, and no
\* list returned is longer than 20
C15_SkippedNotCounted ==
    ipc = "done" =>
        /\ Len(img_ret) <= 20
        /\ img_file.open_ok =>
              img_ret = SubSeq(QualifyingImages, 1, Min(20, Len(QualifyingImages)))

\* a DOCX where an entry was skipped before the 20th image returned
C15_Witness ==
    /\ ipc = "done" /\ img_file.open_ok /\ img_file.suffix = ".docx"
    /\ Len(img_ret) = 20
    /\ img_ret[20][2] >= 20
    /\ Len(Encounters) > img_ret[20][2] + 1

(***************************************************************************)
(* cv_vision.py: extract_text_from_images run on one file, its images      *)
(* taken by the extractors                                                 *)
(***************************************************************************)
\* the entries a small file is made of: two large images and an icon
FileItems == {PlainItem, OddItem("upper"), OddItem("small")}

InitVisionFile ==
    /\ VisionAtRest
    /\ ChunkAtRest
    /\ CvAtRest
    /\ BatchAtRest
    /\ CleanAtRest
    /\ \E suffix \in {".pdf", ".docx"}, n \in 0..MaxImgs, pp \in PageLayouts, ok \in BOOLEAN :
       \E items \in [1..n -> FileItems] :
          img_file = ImageFile(suffix, items, pp, ok)
    /\ ipc = "call"
    /\ img_ret = <<>>

\* lines 259-278 on img_file: the extractor for its suffix gives the images
extract_text_start_file ==
    /\ vpc = "idle"
    /\ runs < MaxRuns
    /\ \E uc \in BOOLEAN :
       \E readOk \in (IF uc THEN BOOLEAN ELSE {TRUE}) :
          LET imgs == IF img_file.suffix = ".pdf"
                      THEN extract_images_from_pdf(img_file.pages, img_file.open_ok)
                      ELSE extract_images_from_docx(img_file.pages[1], img_file.open_ok)
          IN  /\ StartRun(uc, readOk, img_file.suffix, imgs)
              /\ img_ret' = imgs
    /\ ipc' = "done"
    /\ UNCHANGED img_file

NextVisionFile ==
    \/ extract_text_start_file
    \/ extract_text_image_hit
    \/ extract_text_image_call
    \/ extract_text_finish

SpecVisionFile == InitVisionFile /\ [][NextVisionFile]_vars

(***************************************************************************)
(* Claims about small images in extract_text_from_images                   *)
(***************************************************************************)
\* C13: an embedded image of fewer than 5000 bytes is never passed to the
\* vision model, never gets a cache entry and gives no text to the output,
\* in a PDF and in a DOCX: it is in no image list being processed, no call
\* was made for its hash, its hash is in neither the cache file nor the
\* local cache, and no text was obtained or returned for it
C13_SmallImagesIgnored ==
    \A b \in ImageBytes \cup SmallImageBytes :
        ByteLen(b) < 5000 =>
            LET h == get_image_hash(b)
            IN  /\ \A i \in 1..Len(images) : images[i][3] # b
                /\ calls[h] = 0
                /\ h \notin DOMAIN cacheFile
                /\ h \notin DOMAIN cache
                /\ outs[h] = {}
                /\ \A i \in 1..Len(results) : results[i].image_hash # h

\* a file with an icon that reads without error and a large image has been
\* processed and the cache file written
C13_Witness ==
    /\ vpc = "idle" /\ runs >= 1
    /\ cacheFile # EmptyDict
    /\ \E p \in 1..Len(img_file.pages) : \E k \in 1..Len(img_file.pages[p]) :
          LET it == img_file.pages[p][k]
          IN  it.bytes = "icon" /\ ~it.fails /\ IsImageName(it.name)

(***************************************************************************)
(* cv_processor.py: CVProcessor.process_all                                *)
(***************************************************************************)
\* entries in cvs_folder
MaxFiles == 2

\* the entries a folder is made of: name, suffix, text pages, whether the
\* parser opens the file, and what process_cv_with_vision comes to for it
BatchFiles ==
    { [name |-> "a.pdf", ext |-> ".pdf", doc |-> <<PageSolid>>, parser_ok |-> TRUE,
       vision_out |-> NoVision],
      [name |-> "b.docx", ext |-> ".docx", doc |-> <<PageSentence>>, parser_ok |-> TRUE,
       vision_out |-> [raised |-> FALSE, image_texts |-> ImageTextsOf(<<TextCert>>, ".docx")]],
      [name |-> "c.pdf", ext |-> ".pdf", doc |-> <<PageSolid>>, parser_ok |-> FALSE,
       vision_out |-> NoVision],
      [name |-> "d.txt", ext |-> ".txt", doc |-> <<PageSolid>>, parser_ok |-> TRUE,
       vision_out |-> NoVision],
      [name |-> "e.pdf", ext |-> ".pdf", doc |-> <<PageSolid>>, parser_ok |-> TRUE,
       vision_out |-> [raised |-> TRUE, image_texts |-> <<>>]],
      [name |-> "f.doc", ext |-> ".doc", doc |-> <<PageShort>>, parser_ok |-> TRUE,
       vision_out |-> NoVision] }

\* folders: up to MaxFiles different entries in any order
Folders ==
    UNION { { f \in [1..n -> BatchFiles] : \A i, j \in 1..n : i # j => f[i] # f[j] }
              : n \in 0..MaxFiles }

\* the matricula a mapping has for a file, when it has a non-empty one
MatriculaOf(name) ==
    CASE name = "a.pdf" -> "E001"
      [] name = "b.docx" -> "E002"
      [] name = "c.pdf" -> "E003"
      [] name = "d.txt" -> "E004"
      [] name = "e.pdf" -> "E005"
      [] name = "f.doc" -> "E006"

\* mappings over the names of these entries: a name is absent, or mapped to
\* "" or to its matricula
MappingsFor(fs) ==
    LET names == {fs[i].name : i \in 1..Len(fs)}
    IN  UNION { { [n \in D |-> IF n \in E THEN "" ELSE MatriculaOf(n)] : E \in SUBSET D }
                  : D \in SUBSET names }

\* mapping.get(name): None modelled as the record without a value
NoMatricula == [some |-> FALSE, val |-> ""]
MappingGet(m, name) ==
    IF name \in DOMAIN m THEN [some |-> TRUE, val |-> m[name]] ELSE NoMatricula

\* `if matricula is None`: only an absent name is skipped
NotMatricula_absent(x) == ~x.some

\* line 366: `if not matricula`
NotMatricula(x) == ~x.some \/ x.val = ""

\* line 357: f.suffix.lower() in ['.pdf', '.docx', '.doc']
IsCvFile(f) == f.ext \in {".pdf", ".docx", ".doc"}

InitBatch ==
    /\ VisionAtRest
    /\ ImgAtRest
    /\ CleanAtRest
    /\ matricula = ""
    /\ filename = ""
    /\ ext = ""
    /\ doc = <<>>
    /\ parser_ok = TRUE
    /\ use_vision \in BOOLEAN
    /\ vision_out = NoVision
    /\ cvpc = "done"
    /\ pages = <<>>
    /\ pidx = 0
    /\ cv_chunks = <<>>
    /\ chunk_id = 0
    /\ body_len = 0
    /\ raw = <<>> /\ cpc = "done" /\ text = <<>> /\ start = 0
    /\ chunks = <<>> /\ iter = 0 /\ trace = <<>>
    /\ \E c \in CVConfigs : chunk_size = c[1] /\ overlap = c[2]
    /\ folder_exists \in BOOLEAN
    /\ folder \in (IF folder_exists THEN Folders ELSE {<<>>})
    /\ mapping \in MappingsFor(folder)
    /\ bpc = "call"
    /\ cv_files = <<>>
    /\ fidx = 0
    /\ all_chunks = <<>>
    /\ processed = 0
    /\ skipped = 0

\* lines 348-360: return [] when the folder does not exist, else list the CVs
process_all_begin ==
    /\ bpc = "call"
    /\ IF ~folder_exists
       THEN /\ bpc' = "done"
            /\ UNCHANGED cv_files
       ELSE /\ bpc' = "loop"
            /\ cv_files' = SelectSeq(folder, IsCvFile)
    /\ all_chunks' = <<>>
    /\ processed' = 0
    /\ skipped' = 0
    /\ fidx' = 0
    /\ UNCHANGED << folder_exists, folder, mapping >>
    /\ UNCHANGED << visionVars, chunkVars, cvVars, imgVars, cleanVars >>

\* lines 363-371: the next file: skipped without a matricula, else handed to
\* process_cv
process_all_file ==
    /\ bpc = "loop"
    /\ fidx < Len(cv_files)
    /\ LET f == cv_files[fidx + 1]
           m == MappingGet(mapping, f.name)
       IN  IF NotMatricula(m)
           THEN /\ skipped' = skipped + 1
                /\ fidx' = fidx + 1
                /\ UNCHANGED << bpc, cvVars >>
           ELSE /\ bpc' = "in_cv"
                /\ matricula' = m.val
                /\ filename' = f.name
                /\ ext' = f.ext
                /\ doc' = f.doc
                /\ parser_ok' = f.parser_ok
                /\ vision_out' = IF use_vision THEN f.vision_out ELSE NoVision
                /\ cvpc' = "call"
                /\ pages' = <<>>
                /\ pidx' = 0
                /\ cv_chunks' = <<>>
                /\ chunk_id' = 0
                /\ body_len' = 0
                /\ UNCHANGED << use_vision, skipped, fidx >>
    /\ UNCHANGED << folder_exists, folder, mapping, cv_files, all_chunks, processed >>
    /\ UNCHANGED << visionVars, chunkVars, imgVars, cleanVars >>

\* lines 373-379: process_cv has returned
process_all_collect ==
    /\ bpc = "in_cv"
    /\ cvpc = "done"
    /\ IF cv_chunks # <<>>
       THEN /\ all_chunks' = all_chunks \o cv_chunks
            /\ processed' = processed + 1
       ELSE UNCHANGED << all_chunks, processed >>
    /\ fidx' = fidx + 1
    /\ bpc' = "loop"
    /\ UNCHANGED << folder_exists, folder, mapping, cv_files, skipped >>
    /\ UNCHANGED << visionVars, chunkVars, cvVars, imgVars, cleanVars >>

\* lines 381-382: the for loop is over
process_all_return ==
    /\ bpc = "loop"
    /\ fidx = Len(cv_files)
    /\ bpc' = "done"
    /\ UNCHANGED << folder_exists, folder, mapping, cv_files, fidx, all_chunks,
                    processed, skipped >>
    /\ UNCHANGED << visionVars, chunkVars, cvVars, imgVars, cleanVars >>

NextBatch ==
    \/ process_all_begin
    \/ process_all_file
    \/ process_cv_begin
    \/ process_cv_page
    \/ process_cv_finish
    \/ process_all_collect
    \/ process_all_return

SpecBatch == InitBatch /\ [][NextBatch]_vars

(***************************************************************************)
(* Claims about process_all                                                *)
(***************************************************************************)
\* positions in the folder of the files with a CV suffix
EligibleFiles == { i \in 1..Len(folder) : folder[i].ext \in {".pdf", ".docx", ".doc"} }

\* eligible files whose name is a key of the mapping
FilesWithKey == { i \in EligibleFiles : folder[i].name \in DOMAIN mapping }

\* eligible files for which the mapping has a non-empty matricula
FilesWithMatricula == { i \in FilesWithKey : mapping[folder[i].name] # "" }

\* the accounting of a returned batch against the set of covered files
SkipAccounting(covered) ==
    bpc = "done" =>
        /\ skipped = Cardinality(EligibleFiles) - Cardinality(covered)
        /\ processed <= Cardinality(covered)
        /\ processed + skipped <= Cardinality(EligibleFiles)
        /\ \A k \in 1..Len(all_chunks) :
              \E i \in covered :
                 /\ all_chunks[k].cv_filename = folder[i].name
                 /\ all_chunks[k].matricula = mapping[folder[i].name]

FailedFiles ==
    { i \in FilesWithMatricula :
         \/ ~folder[i].parser_ok
         \/ use_vision /\ folder[i].vision_out.raised }

\* mapped files that are processed without failure and have a page whose
\* cleaned text is long enough for a chunk
SoundFiles ==
    { i \in FilesWithMatricula \ FailedFiles :
         \E p \in 1..Len(folder[i].doc) : Len(clean_text(folder[i].doc[p])) >= MinChunkLen }

ChunksOfFile(i) ==
    { k \in 1..Len(all_chunks) : all_chunks[k].cv_filename = folder[i].name }

\* C17: a file whose processing fails (corrupt document, vision error)
\* contributes no chunk, process_all never stops inside a file, and the
\* returned list has the chunks of the other files
C17_FailureContained ==
    /\ ~(bpc = "in_cv" /\ cvpc = "hung")
    /\ bpc = "done" =>
          /\ \A i \in FailedFiles : ChunksOfFile(i) = {}
          /\ \A i \in SoundFiles : ChunksOfFile(i) # {}

(***************************************************************************)
(* cv_processor.py: CVProcessor.clean_text on bounded texts                *)
(***************************************************************************)
\* pieces a text is made of
MaxTokens == 5

\* the letter U+00F1 (n with tilde), one character of a Python string
Enye == "n~"

\* a word, a short piece with a digit, a letter outside a-z, the two blanks,
\* the line breaks and a control character
CleanTokens ==
    { <<"a", "b", "c">>, <<"a", "1">>, <<Enye>>, <<" ">>, <<"\t">>, <<"\n">>, <<"\r">>,
      <<"\f">> }

RECURSIVE Concat(_)
Concat(pieces) ==
    IF pieces = <<>> THEN <<>> ELSE Head(pieces) \o Concat(Tail(pieces))

InitClean ==
    /\ VisionAtRest
    /\ ChunkAtRest
    /\ CvAtRest
    /\ ImgAtRest
    /\ BatchAtRest
    /\ \E n \in 0..MaxTokens : \E f \in [1..n -> CleanTokens] : clean_in = Concat(f)
    /\ clpc = "call"
    /\ clean_out = <<>>
    /\ clean_again = <<>>

\* lines 178-204: clean_text(clean_in)
clean_text_call ==
    /\ clpc = "call"
    /\ clean_out' = clean_text(clean_in)
    /\ clpc' = "once"
    /\ UNCHANGED << clean_in, clean_again >>
    /\ UNCHANGED << visionVars, chunkVars, cvVars, imgVars, batchVars >>

\* lines 178-204: clean_text applied to the text it returned
clean_text_again ==
    /\ clpc = "once"
    /\ clean_again' = clean_text(clean_out)
    /\ clpc' = "twice"
    /\ UNCHANGED << clean_in, clean_out >>
    /\ UNCHANGED << visionVars, chunkVars, cvVars, imgVars, batchVars >>

NextClean ==
    \/ clean_text_call
    \/ clean_text_again

SpecClean == InitClean /\ [][NextClean]_vars

(***************************************************************************)
(* Claims about clean_text                                                 *)
(***************************************************************************)
\* C18: clean_text applied to its own result returns that result
C18_Idempotent == clpc = "twice" => clean_again = clean_out

\* a text of several lines that cleaning changed, cleaned a second time
C18_Witness ==
    /\ clpc = "twice"
    /\ clean_out # clean_in
    /\ \E i \in 1..Len(clean_out) : clean_out[i] = "\n"
    /\ \E i \in 1..Len(clean_out) : clean_out[i] = " "

\* the lines of the argument: control characters removed, "\r\n" and "\r"
\* taken as line breaks
InputLines(s) == SplitLines(ReplaceCR(ReplaceCRLF(RemoveControl(s))))

\* the lines of a returned text
OutputLines(s) == IF s = <<>> THEN <<>> ELSE SplitLines(s)

\* the positions of a sequence of lines whose line passes a test, in order
Positions(lines, Test(_)) ==
    LET All == [i \in 1..Len(lines) |-> i]
        Passes(i) == Test(lines[i])
    IN  SelectSeq(All, Passes)

Retained(line) == KeepLine(Strip(line))
NonEmptyLine(line) == line # <<>>

\* C19: the returned text has no tab and no two blanks in a row, and two
\* retained lines that follow each other with three or more line breaks
\* between them in the argument have exactly two newlines between them in
\* the returned text
C19_CollapsesRuns ==
    clpc # "call" =>
        LET inL == InputLines(clean_in)
            outL == OutputLines(clean_out)
            inPos == Positions(inL, Retained)
            outPos == Positions(outL, NonEmptyLine)
        IN  /\ \A i \in 1..Len(clean_out) : clean_out[i] # "\t"
            /\ \A i \in 1..(Len(clean_out) - 1) :
                  ~(clean_out[i] = " " /\ clean_out[i + 1] = " ")
            /\ Len(outPos) = Len(inPos)
            /\ \A k \in 1..(Len(inPos) - 1) :
                  inPos[k + 1] - inPos[k] >= 3 => outPos[k + 1] - outPos[k] = 2

\* the letters of the texts: a-z, A-Z and the letter outside that range
Letters == AsciiLetters \cup {Enye}
IsLetter(c) == c \in Letters
HasThreeLetters(line) == Len(SelectSeq(line, IsLetter)) >= 3

\* C20: the lines of the returned text are the lines of the argument that
\* have at least three alphabetic characters, trimmed, in their order
C20_DropsExactly ==
    clpc # "call" =>
        LET kept == SelectSeq(InputLines(clean_in), HasThreeLetters)
        IN  OutputLines(clean_out) = [i \in 1..Len(kept) |-> CollapseBlanks(Strip(kept[i]))]

(***************************************************************************)
(* cv_processor.py: process_cv on PDFs of several pages                    *)
(***************************************************************************)
\* pages of a PDF
MaxPdfPages == 3

\* a page without text, one that cleaning empties, and two with text
PdfPageTexts == { PageBlank, PageDigits, PageSentence, PageSolid }
PdfDocs == UNION { [1..n -> PdfPageTexts] : n \in 0..MaxPdfPages }

\* the defaults and a chunk_size that splits a page
PdfConfigs == { <<500, 100>>, <<24, 4>> }

InitPdf ==
    /\ VisionAtRest
    /\ ImgAtRest
    /\ BatchAtRest
    /\ CleanAtRest
    /\ raw = <<>> /\ cpc = "done" /\ text = <<>> /\ start = 0
    /\ chunks = <<>> /\ iter = 0 /\ trace = <<>>
    /\ \E c \in PdfConfigs : chunk_size = c[1] /\ overlap = c[2]
    /\ ext = ".pdf"
    /\ matricula = Matricula
    /\ filename = FileName(ext)
    /\ doc \in PdfDocs
    /\ parser_ok \in BOOLEAN
    /\ use_vision \in BOOLEAN
    /\ vision_out \in (IF use_vision THEN VisionOuts(ext) ELSE {NoVision})
    /\ cvpc = "call"
    /\ pages = <<>>
    /\ pidx = 0
    /\ cv_chunks = <<>>
    /\ chunk_id = 0
    /\ body_len = 0

SpecPdf == InitPdf /\ [][Next]_vars

\* the numbers of the pages of the document that have text
PagesWithText ==
    { n \in 1..Len(doc) : \E i \in 1..Len(doc[n]) : ~IsSpace(doc[n][i]) }

Sentinels == {SIN_TEXTO, SIN_TEXT, NO_TEXT}

\* a text that may stand for what an image says: trimmed, not empty, not a
\* sentinel
IsImageTextOk(t) == t # <<>> /\ Strip(t) = t /\ t \notin Sentinels

\* C22: _call_gemini_vision returns None for every answer that, trimmed, is
\* a sentinel or empty; no sentinel is a value of the cache file or of the
\* local cache, and every text of an ImageText, in the list being built or
\* returned for an image, is a trimmed, non-empty text that is no sentinel
C22_NoSentinelAsText ==
    /\ \A resp \in Responses :
          (resp.kind = "ok" /\ Strip(resp.body) \in Sentinels \cup {<<>>})
              => call_gemini_vision(resp) = None
    /\ \A h \in DOMAIN cacheFile : cacheFile[h] \notin Sentinels
    /\ \A h \in DOMAIN cache : cache[h] \notin Sentinels
    /\ \A i \in 1..Len(results) : IsImageTextOk(results[i].text)
    /\ \A h \in Hashes : \A t \in outs[h] : t = <<>> \/ IsImageTextOk(t)

\* inside a run, the vision model answered one image of this run with a
\* no-text answer (the call did not fail and "" was stored) and another with
\* a text
C22_Witness ==
    /\ vpc = "loop"
    /\ results # <<>>
    /\ \E h \in DOMAIN cache :
          /\ runCalls[h] = 1
          /\ h \notin runFailed
          /\ cache[h] = <<>>

(***************************************************************************)
(* Claims about the image pipeline inside process_cv                       *)
(***************************************************************************)
\* the strings of the image text that are long enough for a chunk
ImageChunkStrings == { str \in ChunkStrings(VisionText) : Len(str) >= MinChunkLen }

\* every image text comes from a page the document has
ImagesOnPages ==
    \A k \in 1..Len(vision_out.image_texts) :
        vision_out.image_texts[k].page_num <= Len(doc)

\* C23: with vision enabled, for a PDF or DOCX that opens and whose image
\* pipeline does not raise, every string chunk_text makes of the cleaned
\* image text that is long enough is returned as a chunk with page_num 0
\* and the "[IMAGEN] " prefix, also when the document has no page of text
C23_ImagePipelineRuns ==
    (cvpc = "done" /\ use_vision /\ ext \in {".pdf", ".docx"} /\ parser_ok
        /\ ~vision_out.raised /\ ImagesOnPages) =>
        \A str \in ImageChunkStrings :
            \E i \in 1..Len(cv_chunks) :
                /\ cv_chunks[i].page_num = 0
                /\ cv_chunks[i].text = <<"[", "I", "M", "A", "G", "E", "N", "]", " ">> \o str

\* C24: no chunk process_cv returns, of body text or of image text, has a
\* text longer than chunk_size
C24_ChunkSizeIsMax ==
    cvpc = "done" => \A i \in 1..Len(cv_chunks) : Len(cv_chunks[i].text) <= chunk_size

(***************************************************************************)
(* cv_processor.py: chunk_text with wider windows                          *)
(***************************************************************************)
\* pieces a text is made of
MaxWideTokens == 4

\* words of one, three and nine letters and the separators
WideTokens ==
    { Word(1), Word(3), Word(9), <<" ">>, <<".", " ">>, <<",", " ">> }

\* (chunk_size, overlap) with 0 <= overlap < chunk_size
WideConfigs == { <<5, 2>>, <<6, 0>>, <<7, 3>>, <<7, 6>>, <<12, 11>> }

InitChunkWide ==
    /\ VisionAtRest
    /\ CvAtRest
    /\ ImgAtRest
    /\ BatchAtRest
    /\ CleanAtRest
    /\ \E n \in 0..MaxWideTokens : \E f \in [1..n -> WideTokens] : raw = Concat(f)
    /\ \E c \in WideConfigs : chunk_size = c[1] /\ overlap = c[2]
    /\ cpc = "call"
    /\ text = <<>>
    /\ start = 0
    /\ chunks = <<>>
    /\ iter = 0
    /\ trace = <<>>

SpecChunkWide == InitChunkWide /\ [][NextChunk]_vars

(***************************************************************************)
(* Claims about the windows of chunk_text                                  *)
(***************************************************************************)
\* ". ", ", " and " " in the order of their priority
PrioritySeps == << <<".", " ">>, <<",", " ">>, <<" ">> >>

\* the places where sep lies wholly inside [lo, hi) of the text
OccurrencesIn(sep, lo, hi) ==
    { q \in lo..(hi - Len(sep)) : q >= 0 /\ MatchesAt(text, sep, q) }

\* the separators, by priority, that occur in the search range of the window
\* that starts at st
SepsInRange(st) ==
    { k \in 1..Len(PrioritySeps) :
         OccurrencesIn(PrioritySeps[k], st + chunk_size \div 2, st + chunk_size) # {} }

\* the windows the loop has cut whose right edge is before the end of the text
NonFinalWindows == { i \in 1..Len(trace) : trace[i].start + chunk_size < Len(text) }

\* C25: a non-final window with a separator in its search range is cut
\* right after the last occurrence of the highest-priority separator that
\* occurs there, and every non-final window is longer than chunk_size div 2
\* and no longer than chunk_size
C25_CutPriority ==
    \A i \in NonFinalWindows :
        LET w == trace[i]
            seps == SepsInRange(w.start)
        IN  /\ seps # {} =>
                  LET sep == PrioritySeps[SetMin(seps)]
                  IN  w.end = SetMax(OccurrencesIn(sep, w.start + chunk_size \div 2,
                                                   w.start + chunk_size)) + Len(sep)
            /\ w.end - w.start > chunk_size \div 2
            /\ w.end - w.start <= chunk_size

\* C26: a non-final window without a separator in its search range is cut at
\* start + chunk_size
C26_RawCutFallback ==
    \A i \in NonFinalWindows :
        SepsInRange(trace[i].start) = {} => trace[i].end = trace[i].start + chunk_size

\* C29: with 0 <= overlap < chunk_size the start of a window is never
\* negative and each iteration leaves the loop body with a larger start than
\* it entered with
C29_StartAdvances ==
    (0 <= overlap /\ overlap < chunk_size) =>
        /\ start >= 0
        /\ \A i \in 1..Len(trace) :
              /\ trace[i].start >= 0
              /\ i < Len(trace) => trace[i + 1].start > trace[i].start
        /\ trace # <<>> => start > trace[Len(trace)].start

\* C30: in the list chunk_text returns, every chunk after the first was cut
\* from a window with a position of the text that no earlier chunk's window
\* has
C30_NoDegenerateChunk ==
    (cpc = "done" /\ iter > 0) =>
        \A i \in 2..Len(EmittedWindows) :
            \E q \in SlicePositions(text, EmittedWindows[i].start, EmittedWindows[i].end) :
                \A j \in 1..(i - 1) :
                    q \notin SlicePositions(text, EmittedWindows[j].start, EmittedWindows[j].end)

(***************************************************************************)
(* Claims about failures inside extract_text_from_images (checked under    *)
(* SpecVision)                                                             *)
(***************************************************************************)
\* the step that enters the for loop of a call with caching on
EntersLoopCached == vpc = "idle" /\ vpc' = "loop" /\ use_cache'

\* the texts a list of ImageText holds for the image img
EmittedFor(res, img) ==
    { res[k].text : k \in { j \in 1..Len(res) : /\ res[j].page_num = img[1]
                                                 /\ res[j].image_index = img[2] } }

FailedCallStep ==
    /\ HandlesImage
    /\ runCalls' # runCalls
    /\ HashAt(idx + 1) \in runFailed'

IsPrefix(s, t) == Len(s) <= Len(t) /\ SubSeq(t, 1, Len(s)) = s

\* C28: the failure of one image's vision call never aborts processing: a
\* call that raises, has no key or gets a malformed answer comes to None;
\* the loop then goes on to the next image with the texts found so far kept,
\* no step of the loop drops a text already found, and the call returns the
\* list the loop built.
C28_FailureDoesNotAbort ==
    [][/\ \A resp \in Responses : IsFailure(resp) => call_gemini_vision(resp) = None
       /\ FailedCallStep =>
             /\ vpc' = "loop" /\ images' = images /\ idx' = idx + 1
             /\ results' = results
       /\ HandlesImage => IsPrefix(results, results')
       /\ ReturnsFromLoop => vision_ret' = Returned(results)]_vars

\* the vision call for the first image of a document failed and the text of
\* the second image, asked for afterwards, is in the results
C28_Witness ==
    /\ vpc = "loop" /\ idx = 2
    /\ HashAt(1) \in runFailed /\ HashAt(1) # HashAt(2)
    /\ runCalls[HashAt(2)] = 1
    /\ Len(results) = 1 /\ results[1].image_hash = HashAt(2)

\* process_cv, lines 312-336: the chunks of the page loop are returned
\* whatever process_cv_with_vision comes to (checked under Spec)
BodyChunksKept ==
    cvpc = "done" =>
        /\ body_len <= Len(cv_chunks)
        /\ vision_out.raised => Len(cv_chunks) = body_len
====
